---- MODULE Spec2Model ----
(***************************************************************************)
(* State-machine model of the CHIP-8 core in src/src/emulator.rs:          *)
(* Chip8Emulator::new, run_60hz_frame, run_instruction, fetch and decode.  *)
(***************************************************************************)
EXTENDS Integers, Sequences, FiniteSets, TLC

(***************************************************************************)
(* Program constants                                                       *)
(***************************************************************************)
RAM_SIZE == 4096

PROGRAM_START_ADDRESS == 512

PROGRAM_MAX_SIZE == RAM_SIZE - PROGRAM_START_ADDRESS

FONT_START == 80

WIDTH == 64

HEIGHT == 32

\* A u32 is held as the signed 32-bit integer with the same bits, the widest
\* integer the model checker has: hi and lo are its 16-bit halves.
U32(hi, lo) == IF hi >= 32768 THEN (hi - 65536) * 65536 + lo ELSE hi * 65536 + lo

\* variant of the lit colour: 0x00FFFFFF, white without the top byte
PIXEL_ON_Rgb == U32(255, 65535)

\* 0xFFFFFFFF
PIXEL_ON == U32(65535, 65535)

FONTS ==
  << 240, 144, 144, 144, 240,
      32,  96,  32,  32, 112,
     240,  16, 240, 128, 240,
     240,  16, 240,  16, 240,
     144, 144, 240,  16,  16,
     240, 128, 240,  16, 240,
     240, 128, 240, 144, 240,
     240,  16,  32,  64,  64,
     240, 144, 240, 144, 240,
     240, 144, 240,  16, 240,
     240, 144, 240, 144, 144,
     224, 144, 224, 144, 224,
     240, 128, 128, 128, 240,
     224, 144, 144, 144, 224,
     240, 128, 240, 128, 240,
     240, 128, 240, 128, 128 >>

(***************************************************************************)
(* Bounds of the exploration                                               *)
(***************************************************************************)
\* calls of run_instruction and run_60hz_frame made on one emulator
MaxCalls == 4

\* largest timer value a frame is started from in SpecTimers
MaxTimer == 3

(***************************************************************************)
(* Machine arithmetic                                                      *)
(***************************************************************************)
Pow2(k) == 2 ^ k

\* bit k (0 = least significant) of a non-negative integer
Bit(v, k) == (v \div Pow2(k)) % 2

\* u8 & u8
And8(a, b) ==
  LET s[k \in 0..8] == IF k = 8 THEN 0
                       ELSE Bit(a, k) * Bit(b, k) * Pow2(k) + s[k + 1]
  IN  s[0]

\* variant of wrapping_add: saturating_add in its place
WrappingAdd8_Saturating(a, b) == IF a + b > 255 THEN 255 ELSE a + b

\* u8::wrapping_add
WrappingAdd8(a, b) == (a + b) % 256

\* variant of overflowing_add: the carry is reported from 255 on
OverflowingAdd8_CarryAt255(a, b) == << (a + b) % 256, a + b >= 255 >>

\* variant of overflowing_add: saturating_add in its place
OverflowingAdd8_Saturating(a, b) ==
  << IF a + b > 255 THEN 255 ELSE a + b, a + b > 255 >>

\* u8::overflowing_add
OverflowingAdd8(a, b) == << (a + b) % 256, a + b > 255 >>

(***************************************************************************)
(* State                                                                   *)
(***************************************************************************)
VARIABLES
  registers,               \* [u8; 16]
  ram,                     \* [u8; RAM_SIZE]
  index_register,          \* u16
  program_counter,         \* u16
  stack,                   \* [u16; 16]
  stack_pointer,           \* u8
  delay_timer,             \* u8
  sound_timer,             \* u8
  display_buffer,          \* [u32; WIDTH * HEIGHT]
  instructions_per_frame,  \* u8
  rom,                     \* the byte vector handed to new
  overflow_checks,         \* build profile: integer overflow panics (debug) or wraps (release)
  status,                  \* "running", "new_panicked" or "panicked"
  last_call,               \* "new", "run_instruction" or "run_60hz_frame"
  cycles,                  \* fetch-decode-dispatch cycles completed by the last call
  calls                    \* calls made on the emulator since construction

vars == << registers, ram, index_register, program_counter, stack,
           stack_pointer, delay_timer, sound_timer, display_buffer,
           instructions_per_frame, rom, overflow_checks, status, last_call,
           cycles, calls >>

\* the value every field has when new panicked and no emulator exists
NoEmulator == << >>

(***************************************************************************)
(* decode                                                                  *)
(***************************************************************************)
\* variant of decode: the address mask written 0x07FF
decode_NarrowAddress(instruction) ==
  [ first_nibble       |-> (instruction \div 4096) % 256,
    x_register         |-> ((instruction \div 256) % 256) % 16,
    y_register         |-> ((instruction \div 16) % 256) % 16,
    n_4_bit_constant   |-> (instruction % 16) % 256,
    nn_8_bit_constant  |-> instruction % 256,
    nnn_12_bit_address |-> instruction % 2048,
    raw_instruction    |-> instruction ]

decode(instruction) ==
  [ first_nibble       |-> (instruction \div 4096) % 256,
    x_register         |-> ((instruction \div 256) % 256) % 16,
    y_register         |-> ((instruction \div 16) % 256) % 16,
    n_4_bit_constant   |-> (instruction % 16) % 256,
    nn_8_bit_constant  |-> instruction % 256,
    nnn_12_bit_address |-> instruction % 4096,
    raw_instruction    |-> instruction ]

(***************************************************************************)
(* fetch: both bytes are indexed, an index past the end of ram panics      *)
(***************************************************************************)
FetchInRange(m) == m.program_counter + 1 < RAM_SIZE

fetch(m) == m.ram[m.program_counter] * 256 + m.ram[m.program_counter + 1]

(***************************************************************************)
(* The emulator as one value; the actions below install it in the          *)
(* variables.  A panic keeps the fields as they were when it happened.     *)
(***************************************************************************)
Machine ==
  [ registers              |-> registers,
    ram                    |-> ram,
    index_register         |-> index_register,
    program_counter        |-> program_counter,
    stack                  |-> stack,
    stack_pointer          |-> stack_pointer,
    delay_timer            |-> delay_timer,
    sound_timer            |-> sound_timer,
    display_buffer         |-> display_buffer,
    instructions_per_frame |-> instructions_per_frame,
    status                 |-> status,
    cycles                 |-> 0 ]

Panic(m) == [m EXCEPT !.status = "panicked"]

(***************************************************************************)
(* Chip8Emulator::new                                                      *)
(***************************************************************************)
\* variant of the size check: the ROM is measured against all of ram
RomFits_RamSize(r) == Len(r) <= RAM_SIZE

RomFits(r) == Len(r) <= PROGRAM_MAX_SIZE

\* variant of the font loop: the table is written one byte too high
InitialRam_FontsShifted(r) ==
  [a \in 0..(RAM_SIZE - 1) |->
     IF a - PROGRAM_START_ADDRESS \in 0..(Len(r) - 1)
     THEN r[a - PROGRAM_START_ADDRESS + 1]
     ELSE IF a - (FONT_START + 1) \in 0..(Len(FONTS) - 1)
          THEN FONTS[a - (FONT_START + 1) + 1]
          ELSE 0]

\* zero-fill, then the fonts from FONT_START, then the program from
\* PROGRAM_START_ADDRESS: a later write wins
InitialRam(r) ==
  [a \in 0..(RAM_SIZE - 1) |->
     IF a - PROGRAM_START_ADDRESS \in 0..(Len(r) - 1)
     THEN r[a - PROGRAM_START_ADDRESS + 1]
     ELSE IF a - FONT_START \in 0..(Len(FONTS) - 1)
          THEN FONTS[a - FONT_START + 1]
          ELSE 0]

New(r, ipf) ==
  [ registers              |-> [i \in 0..15 |-> 0],
    ram                    |-> InitialRam(r),
    index_register         |-> 0,
    program_counter        |-> PROGRAM_START_ADDRESS,
    stack                  |-> [i \in 0..15 |-> 0],
    stack_pointer          |-> 0,
    delay_timer            |-> 0,
    sound_timer            |-> 0,
    display_buffer         |-> [i \in 0..(WIDTH * HEIGHT - 1) |-> 0],
    instructions_per_frame |-> ipf,
    status                 |-> "running",
    cycles                 |-> 0 ]

(***************************************************************************)
(* The match arms of run_instruction, in source order.  Each Exec operator *)
(* takes the machine after program_counter += 2 and the decoded opcode.    *)
(***************************************************************************)
Is00E0(d) == d.raw_instruction = 224

\* variant of 00E0: fill(0) over the first row of the buffer only
Exec00E0_FirstRow(m, d) ==
  [m EXCEPT !.display_buffer =
     [i \in 0..(WIDTH * HEIGHT - 1) |-> IF i < WIDTH THEN 0 ELSE m.display_buffer[i]]]

Exec00E0(m, d) ==
  [m EXCEPT !.display_buffer = [i \in 0..(WIDTH * HEIGHT - 1) |-> 0]]

Is1NNN(d) == d.first_nibble = 1

\* variant of 1NNN: the jump target added to the advance instead of
\* replacing it
Exec1NNN_KeepsAdvance(m, d) ==
  [m EXCEPT !.program_counter = d.nnn_12_bit_address + 2]

Exec1NNN(m, d) == [m EXCEPT !.program_counter = d.nnn_12_bit_address]

Is2NNN(d) == d.first_nibble = 2

\* variant of 2NNN: no bounds check on the stack slot, the write past the
\* array is dropped and the pointer still moves
Exec2NNN_Unchecked(m, d) ==
  IF m.stack_pointer >= 16
  THEN [m EXCEPT !.stack_pointer = m.stack_pointer + 1,
                 !.program_counter = d.nnn_12_bit_address]
  ELSE [m EXCEPT !.stack[m.stack_pointer] = m.program_counter,
                 !.stack_pointer = m.stack_pointer + 1,
                 !.program_counter = d.nnn_12_bit_address]

Exec2NNN(m, d) ==
  IF m.stack_pointer >= 16
  THEN Panic(m)
  ELSE [m EXCEPT !.stack[m.stack_pointer] = m.program_counter,
                 !.stack_pointer = m.stack_pointer + 1,
                 !.program_counter = d.nnn_12_bit_address]

Skip(m) == [m EXCEPT !.program_counter = m.program_counter + 2]

Is3XNN(d) == d.first_nibble = 3

Exec3XNN(m, d) ==
  IF m.registers[d.x_register] = d.nn_8_bit_constant THEN Skip(m) ELSE m

Is4XNN(d) == d.first_nibble = 4

Exec4XNN(m, d) ==
  IF m.registers[d.x_register] # d.nn_8_bit_constant THEN Skip(m) ELSE m

\* variant of the 5XY0 pattern: the low nibble is not matched
Is5XY0_AnyLowNibble(d) == d.first_nibble = 5

Is5XY0(d) == d.first_nibble = 5 /\ d.n_4_bit_constant = 0

Exec5XY0(m, d) ==
  IF m.registers[d.x_register] = m.registers[d.y_register] THEN Skip(m) ELSE m

Is6XNN(d) == d.first_nibble = 6

Exec6XNN(m, d) == [m EXCEPT !.registers[d.x_register] = d.nn_8_bit_constant]

Is7XNN(d) == d.first_nibble = 7

\* variant of 7XNN: the carry goes to the flag register, as in 8XY4
Exec7XNN_Carry(m, d) ==
  LET sum == m.registers[d.x_register] + d.nn_8_bit_constant
  IN  [m EXCEPT !.registers =
                  [[m.registers EXCEPT ![d.x_register] = sum % 256]
                     EXCEPT ![15] = IF sum > 255 THEN 1 ELSE 0]]

Exec7XNN(m, d) ==
  [m EXCEPT !.registers[d.x_register] =
              WrappingAdd8(m.registers[d.x_register], d.nn_8_bit_constant)]

\* variant of the 8XY0 pattern: the low nibble left out of the match
Is8XY0_AnyLowNibble(d) == d.first_nibble = 8

Is8XY0(d) == d.first_nibble = 8 /\ d.n_4_bit_constant = 0

Exec8XY0(m, d) ==
  [m EXCEPT !.registers[d.x_register] = m.registers[d.y_register]]

Is8XY2(d) == d.first_nibble = 8 /\ d.n_4_bit_constant = 2

Exec8XY2(m, d) ==
  [m EXCEPT !.registers[d.x_register] =
              And8(m.registers[d.x_register], m.registers[d.y_register])]

Is8XY4(d) == d.first_nibble = 8 /\ d.n_4_bit_constant = 4

Exec8XY4(m, d) ==
  LET x_value      == m.registers[d.x_register]
      y_value      == m.registers[d.y_register]
      result       == OverflowingAdd8(x_value, y_value)
      result_value == result[1]
      overflow     == result[2]
      stored       == [m.registers EXCEPT ![d.x_register] = result_value]
  IN  [m EXCEPT !.registers =
                  [stored EXCEPT ![15] = IF overflow THEN 1 ELSE 0]]

Is9XY0(d) == d.first_nibble = 9 /\ d.n_4_bit_constant = 0

\* variant of 9XY0: the comparison of 5XY0 copied unchanged
Exec9XY0_SkipOnEqual(m, d) ==
  IF m.registers[d.x_register] = m.registers[d.y_register] THEN Skip(m) ELSE m

Exec9XY0(m, d) ==
  IF m.registers[d.x_register] # m.registers[d.y_register] THEN Skip(m) ELSE m

IsANNN(d) == d.first_nibble = 10

ExecANNN(m, d) == [m EXCEPT !.index_register = d.nnn_12_bit_address]

IsDXYN(d) == d.first_nibble = 13

\* variant of the draw rule: a lit cell under a set bit stays lit and only
\* the collision is recorded
DrawPixel_Or(m, d, s, y_counter, x_counter) ==
  LET x == m.registers[d.x_register]
      y == m.registers[d.y_register]
  IN  IF m.index_register + y_counter >= RAM_SIZE
      THEN [s EXCEPT !.ok = FALSE]
      ELSE
        LET is_pixel_on  == And8(m.ram[m.index_register + y_counter],
                                 128 \div Pow2(x_counter)) # 0
            dest_address == (y_counter + y) * WIDTH + (x_counter + x)
        IN  IF dest_address >= WIDTH * HEIGHT
            THEN [s EXCEPT !.ok = FALSE]
            ELSE
              LET is_already_on == s.buf[dest_address] # 0
              IN  IF is_pixel_on
                  THEN IF is_already_on
                       THEN [s EXCEPT !.collision_detected = TRUE]
                       ELSE [s EXCEPT !.buf[dest_address] = PIXEL_ON]
                  ELSE s

\* one iteration of the inner loop body of DXYN on pixel (y_counter, x_counter);
\* s = [buf, collision_detected, ok]
DrawPixel(m, d, s, y_counter, x_counter) ==
  LET x == m.registers[d.x_register]
      y == m.registers[d.y_register]
  IN  IF m.index_register + y_counter >= RAM_SIZE
      THEN [s EXCEPT !.ok = FALSE]
      ELSE
        LET is_pixel_on  == And8(m.ram[m.index_register + y_counter],
                                 128 \div Pow2(x_counter)) # 0
            dest_address == (y_counter + y) * WIDTH + (x_counter + x)
        IN  IF dest_address >= WIDTH * HEIGHT
            THEN [s EXCEPT !.ok = FALSE]
            ELSE
              LET is_already_on == s.buf[dest_address] # 0
              IN  IF is_pixel_on
                  THEN IF is_already_on
                       THEN [s EXCEPT !.buf[dest_address] = 0,
                                      !.collision_detected = TRUE]
                       ELSE [s EXCEPT !.buf[dest_address] = PIXEL_ON]
                  ELSE s

\* the nested loops of DXYN, k = y_counter * 8 + x_counter
RECURSIVE DrawLoop(_, _, _, _)
DrawLoop(m, d, s, k) ==
  IF k >= d.n_4_bit_constant * 8 \/ ~s.ok
  THEN s
  ELSE DrawLoop(m, d, DrawPixel(m, d, s, k \div 8, k % 8), k + 1)

\* the flag update after the loops of DXYN
\* variant of the flag update: what the comment on DXYN describes, 0 when
\* no lit cell was put out
DrawFlag_Resets(regs, collision_detected) ==
  [regs EXCEPT ![15] = IF collision_detected THEN 1 ELSE 0]

DrawFlag(regs, collision_detected) ==
  IF collision_detected THEN [regs EXCEPT ![15] = 1] ELSE regs

ExecDXYN(m, d) ==
  LET s == DrawLoop(m, d, [buf |-> m.display_buffer,
                           collision_detected |-> FALSE,
                           ok |-> TRUE], 0)
  IN  IF ~s.ok
      THEN Panic([m EXCEPT !.display_buffer = s.buf])
      ELSE [m EXCEPT !.display_buffer = s.buf,
                     !.registers = DrawFlag(m.registers, s.collision_detected)]

IsFX1E(d) == d.first_nibble = 15 /\ d.nn_8_bit_constant = 30

\* u16 +=: overflow panics with overflow checks and wraps without
ExecFX1E(m, d) ==
  LET sum == m.index_register + m.registers[d.x_register]
  IN  IF sum > 65535 /\ overflow_checks
      THEN Panic(m)
      ELSE [m EXCEPT !.index_register = sum % 65536]

IsFX65(d) == d.first_nibble = 15 /\ d.nn_8_bit_constant = 101

\* the loop of FX65 from register i on; s = [regs, ok]
RECURSIVE LoadLoop(_, _, _, _)
LoadLoop(m, d, s, i) ==
  IF i > d.x_register \/ ~s.ok
  THEN s
  ELSE IF m.index_register + i >= RAM_SIZE
       THEN [s EXCEPT !.ok = FALSE]
       ELSE LoadLoop(m, d,
                     [s EXCEPT !.regs[i] = m.ram[m.index_register + i]],
                     i + 1)

\* variant of FX65: the assignment of FX55, registers stored into memory
ExecFX65_Stores(m, d) ==
  IF m.index_register + d.x_register >= RAM_SIZE
  THEN Panic(m)
  ELSE [m EXCEPT !.ram =
          [a \in 0..(RAM_SIZE - 1) |->
             IF a >= m.index_register /\ a <= m.index_register + d.x_register
             THEN m.registers[a - m.index_register]
             ELSE m.ram[a]]]

ExecFX65(m, d) ==
  LET s == LoadLoop(m, d, [regs |-> m.registers, ok |-> TRUE], 0)
  IN  IF ~s.ok
      THEN Panic([m EXCEPT !.registers = s.regs])
      ELSE [m EXCEPT !.registers = s.regs]

\* the catch-all arm: error! logs the opcode
ExecUnknown(m, d) == m

Dispatch(m, d) ==
  IF      Is00E0(d) THEN Exec00E0(m, d)
  ELSE IF Is1NNN(d) THEN Exec1NNN(m, d)
  ELSE IF Is2NNN(d) THEN Exec2NNN(m, d)
  ELSE IF Is3XNN(d) THEN Exec3XNN(m, d)
  ELSE IF Is4XNN(d) THEN Exec4XNN(m, d)
  ELSE IF Is5XY0(d) THEN Exec5XY0(m, d)
  ELSE IF Is6XNN(d) THEN Exec6XNN(m, d)
  ELSE IF Is7XNN(d) THEN Exec7XNN(m, d)
  ELSE IF Is8XY0(d) THEN Exec8XY0(m, d)
  ELSE IF Is8XY2(d) THEN Exec8XY2(m, d)
  ELSE IF Is8XY4(d) THEN Exec8XY4(m, d)
  ELSE IF Is9XY0(d) THEN Exec9XY0(m, d)
  ELSE IF IsANNN(d) THEN ExecANNN(m, d)
  ELSE IF IsDXYN(d) THEN ExecDXYN(m, d)
  ELSE IF IsFX1E(d) THEN ExecFX1E(m, d)
  ELSE IF IsFX65(d) THEN ExecFX65(m, d)
  ELSE ExecUnknown(m, d)

(***************************************************************************)
(* run_instruction: fetch, program_counter += 2, decode, dispatch          *)
(***************************************************************************)
run_instruction(m) ==
  IF ~FetchInRange(m)
  THEN Panic(m)
  ELSE LET instruction == fetch(m)
           advanced    == [m EXCEPT !.program_counter = m.program_counter + 2]
           done        == Dispatch(advanced, decode(instruction))
       IN  IF done.status = "running"
           THEN [done EXCEPT !.cycles = m.cycles + 1]
           ELSE done

(***************************************************************************)
(* run_60hz_frame: both timers tick, then instructions_per_frame cycles    *)
(***************************************************************************)
\* variant of the timer tick: the guard t > 0 is missing and the u8 wraps
TickTimer_NoFloor(t) == (t + 255) % 256

TickTimer(t) == IF t > 0 THEN t - 1 ELSE t

RECURSIVE RunCycles(_, _)
RunCycles(m, remaining) ==
  IF remaining = 0 \/ m.status # "running"
  THEN m
  ELSE RunCycles(run_instruction(m), remaining - 1)

run_60hz_frame(m) ==
  LET ticked == [m EXCEPT !.delay_timer = TickTimer(m.delay_timer),
                          !.sound_timer = TickTimer(m.sound_timer)]
  IN  RunCycles(ticked, m.instructions_per_frame)

(***************************************************************************)
(* Inputs: the ROMs handed to new, written as programs of 16-bit opcodes   *)
(***************************************************************************)
Op(a, b, c, e) == a * 4096 + b * 256 + c * 16 + e

OpNN(a, x, nn) == a * 4096 + x * 256 + nn

OpNNN(a, nnn) == a * 4096 + nnn

\* big-endian bytes of a program
Bytes(prog) ==
  [i \in 1..(2 * Len(prog)) |->
     IF i % 2 = 1 THEN prog[(i + 1) \div 2] \div 256
                  ELSE prog[i \div 2] % 256]

\* a ROM of n bytes with the markers of test_initial_ram at both ends
MarkedRom(n) == [i \in 1..n |-> IF i = 1 THEN 42 ELSE IF i = n THEN 69 ELSE 0]

TestRegs == {0, 1, 15}

\* operand values: sums on both sides of 255, equal and unequal pairs
LeftVals == {1, 128, 255}

RightVals == {0, 127, 128}

RegOps(x, y) ==
  { Op(5, x, y, 0), Op(5, x, y, 1), Op(8, x, y, 0), Op(8, x, y, 2),
    Op(8, x, y, 4), Op(8, x, y, 14), Op(9, x, y, 0) }

ImmOps(x, nn) ==
  { OpNN(3, x, nn), OpNN(4, x, nn), OpNN(6, x, nn), OpNN(7, x, nn) }

IndexOps(x) ==
  { OpNN(15, x, 30), OpNN(15, x, 101), OpNN(15, x, 7), OpNN(14, x, 158) }

\* set two registers, then operate on them
RegPrograms ==
  UNION { { << OpNN(6, x, a), OpNN(6, y, b), op >> : op \in RegOps(x, y) } :
            x \in TestRegs, a \in LeftVals, y \in TestRegs, b \in RightVals }

\* set a register, then operate on it with an immediate
ImmPrograms ==
  UNION { { << OpNN(6, x, a), op >> : op \in ImmOps(x, nn) } :
            x \in TestRegs, a \in LeftVals, nn \in LeftVals }

\* set a register and the index register, then an FX.. or EX.. opcode
IndexPrograms ==
  UNION { { << OpNN(6, x, a), OpNNN(10, nnn), op >> : op \in IndexOps(x) } :
            x \in TestRegs, a \in {1, 255}, nnn \in {80, 512, 4080, 4095} }

DrawXs == {0, 57, 63, 250}

DrawYs == {0, 27, 31, 32}

\* the glyph "0" of the font table, and the last two bytes of ram
DrawSprites == {80, 4094}

DrawHeights == {1, 5, 15}

\* place a sprite at (V0, V1), draw it, then draw it again or loop over the draw
DrawPrograms ==
  UNION { { << OpNN(6, 0, x), OpNN(6, 1, y), OpNNN(10, nnn), Op(13, 0, 1, n) >>
              \o tail :
              tail \in { << Op(13, 0, 1, n) >>, << OpNNN(1, 518) >> } } :
            x \in DrawXs, y \in DrawYs, nnn \in DrawSprites, n \in DrawHeights }

\* draw at (0, 0) with the flag register already set
FlagPrograms ==
  { << OpNN(6, 15, f), OpNNN(10, nnn), Op(13, 0, 0, n) >> :
      f \in {1, 7}, nnn \in {0, 80}, n \in {0, 1, 5} }

ControlPrograms ==
  { << >>, << 224 >>, << OpNNN(10, 80), Op(13, 0, 0, 5), 224 >>,
    << OpNNN(10, 80), Op(13, 0, 0, 5), Op(13, 0, 0, 5) >>,
    << OpNNN(10, 80), Op(13, 0, 0, 5), OpNNN(10, 85), Op(13, 0, 0, 5), Op(13, 0, 0, 5) >> }
  \cup { << OpNNN(1, nnn) >> : nnn \in {0, 512, 564, 4094, 4095} }
  \cup { << OpNNN(2, nnn) >> : nnn \in {291, 512, 4094} }
  \cup { << OpNNN(2, 516), 0, OpNNN(2, 512) >> }

\* V0 = 255, I = 0xFFF, then I += V0 until a u16 cannot hold the sum
IndexOverflowProgram ==
  << OpNN(6, 0, 255), OpNNN(10, 4095) >> \o [i \in 1..241 |-> OpNN(15, 0, 30)]

\* a subroutine that calls itself, run with 16 instructions per frame:
\* one frame fills the stack
DeepCallProgram == << OpNNN(2, 512) >>

RomLengths == {1, PROGRAM_MAX_SIZE - 1, PROGRAM_MAX_SIZE, PROGRAM_MAX_SIZE + 1}

\* ROMs run at the 12 instructions per frame of main.rs
ArithmeticRoms ==
  { Bytes(prog) : prog \in RegPrograms \cup ImmPrograms \cup IndexPrograms }

\* ROMs run at every frame length of IPFs
FrameRoms ==
  { Bytes(prog) : prog \in DrawPrograms \cup FlagPrograms \cup ControlPrograms }
    \cup { MarkedRom(n) : n \in RomLengths }

IPFs == {0, 2, 12}

\* ROM, instructions per frame, overflow checks.  The build profile only
\* shows in a program that overflows the index register.
Configs ==
  (ArithmeticRoms \X {12} \X {TRUE})
    \cup (FrameRoms \X IPFs \X {TRUE})
    \cup ({Bytes(IndexOverflowProgram)} \X {100} \X BOOLEAN)
    \cup ({Bytes(DeepCallProgram)} \X {16} \X {TRUE})

(***************************************************************************)
(* Actions                                                                 *)
(***************************************************************************)
Install(m) ==
  /\ registers' = m.registers
  /\ ram' = m.ram
  /\ index_register' = m.index_register
  /\ program_counter' = m.program_counter
  /\ stack' = m.stack
  /\ stack_pointer' = m.stack_pointer
  /\ delay_timer' = m.delay_timer
  /\ sound_timer' = m.sound_timer
  /\ display_buffer' = m.display_buffer
  /\ instructions_per_frame' = m.instructions_per_frame
  /\ status' = m.status
  /\ cycles' = m.cycles

\* the emulator m is the current state
Holds(m) ==
  /\ registers = m.registers
  /\ ram = m.ram
  /\ index_register = m.index_register
  /\ program_counter = m.program_counter
  /\ stack = m.stack
  /\ stack_pointer = m.stack_pointer
  /\ delay_timer = m.delay_timer
  /\ sound_timer = m.sound_timer
  /\ display_buffer = m.display_buffer
  /\ instructions_per_frame = m.instructions_per_frame
  /\ status = m.status

\* the assert of new failed: there is no emulator
NoneHeld ==
  /\ registers = NoEmulator
  /\ ram = NoEmulator
  /\ index_register = NoEmulator
  /\ program_counter = NoEmulator
  /\ stack = NoEmulator
  /\ stack_pointer = NoEmulator
  /\ delay_timer = NoEmulator
  /\ sound_timer = NoEmulator
  /\ display_buffer = NoEmulator
  /\ instructions_per_frame = NoEmulator
  /\ status = "new_panicked"

\* the state new(r, ipf) leaves: an emulator, or none when the assert fails
Constructed(r, ipf, checks) ==
  /\ rom = r
  /\ overflow_checks = checks
  /\ last_call = "new"
  /\ calls = 0
  /\ cycles = 0
  /\ IF RomFits(r)
     THEN \E m \in {New(r, ipf)} : Holds(m)
     ELSE NoneHeld

Init == \E c \in Configs : Constructed(c[1], c[2], c[3])

\* run_60hz_frame takes the timers as it finds them.  No implemented opcode
\* writes a timer, so Init leaves both at 0; InitTimers starts an emulator
\* whose timer fields hold d and s, as a test of this module sets a field.
TimerConfigs ==
  { Bytes(prog) : prog \in { << >>, << OpNNN(1, 512) >>, << OpNNN(2, 512) >>,
                             << OpNN(6, 0, 1), OpNN(7, 0, 255), OpNNN(1, 4094) >> } }
    \X IPFs

InitTimers ==
  \E c \in TimerConfigs, d \in 0..MaxTimer, s \in 0..MaxTimer :
    /\ rom = c[1]
    /\ overflow_checks = TRUE
    /\ last_call = "new"
    /\ calls = 0
    /\ cycles = 0
    /\ \E m \in {[New(c[1], c[2]) EXCEPT !.delay_timer = d, !.sound_timer = s]} :
         Holds(m)

RunInstruction ==
  /\ status = "running"
  /\ calls < MaxCalls
  /\ Install(run_instruction(Machine))
  /\ last_call' = "run_instruction"
  /\ calls' = calls + 1
  /\ UNCHANGED << rom, overflow_checks >>

Run60hzFrame ==
  /\ status = "running"
  /\ calls < MaxCalls
  /\ Install(run_60hz_frame(Machine))
  /\ last_call' = "run_60hz_frame"
  /\ calls' = calls + 1
  /\ UNCHANGED << rom, overflow_checks >>

Next == RunInstruction \/ Run60hzFrame

Spec == Init /\ [][Next]_vars

SpecTimers == InitTimers /\ [][Next]_vars

\* One-instruction ROMs for decode and the match: every opcode class, X with
\* each bit set and clear, and in Y, N the values that key the families
\* 00E0, 5XY0, 8XY0/2/4, 9XY0, FX1E and FX65, with the two extreme words.
DecodeWords ==
  { Op(a, b, c, e) : a \in 0..15, b \in {5, 10}, c \in {1, 6, 14}, e \in {0, 2, 4, 5, 14} }
    \cup {0, 224, 65535}

InitDecode == \E w \in DecodeWords : Constructed(Bytes(<< w >>), 12, TRUE)

SpecDecode == InitDecode /\ [][Next]_vars

(***************************************************************************)
(* Vocabulary of the properties                                            *)
(***************************************************************************)
AllZero(f, n) == \A i \in 0..(n - 1) : f[i] = 0

Max(a, b) == IF a >= b THEN a ELSE b

\* a cell is lit when it is non-zero, as the renderer reads it
Lit(v) == v # 0

\* this step is one call of run_instruction that fetched an opcode
InstructionStep ==
  /\ last_call' = "run_instruction"
  /\ calls' = calls + 1
  /\ program_counter + 1 <= 4095

\* the opcode such a step executes
Opcode == ram[program_counter] * 256 + ram[program_counter + 1]

NibbleOf(w, k) == (w \div (16 ^ (3 - k))) % 16

\* the opcode of the call that led to this state, when that call was the
\* n-th of n run_instruction calls on a straight-line program
Ran(n) ==
  /\ last_call = "run_instruction"
  /\ calls = n
  /\ status = "running"
  /\ instructions_per_frame > 0
  /\ program_counter = 512 + 2 * n

LastOpcode == ram[program_counter - 2] * 256 + ram[program_counter - 1]

\* everything but the program counter and the bookkeeping of the call
RestUnchanged ==
  UNCHANGED << registers, ram, index_register, stack, stack_pointer,
               delay_timer, sound_timer, display_buffer,
               instructions_per_frame >>

(***************************************************************************)
(* C1: for every ROM of at most 3584 bytes new succeeds, and right after   *)
(* it ram[0x50..0x9F] is the font table, ram[0x200 + i] is ROM byte i,     *)
(* every other byte of ram is 0, the registers, the index register, the    *)
(* stack, the stack pointer, both timers and the display are 0, and the    *)
(* program counter is 0x200.                                               *)
(***************************************************************************)
C1_NewState ==
  (last_call = "new" /\ Len(rom) <= 3584) =>
     /\ status = "running"
     /\ \A a \in 0..4095 :
          ram[a] = IF a >= 80 /\ a <= 159 THEN FONTS[a - 79]
                   ELSE IF a >= 512 /\ a - 512 < Len(rom) THEN rom[a - 511]
                   ELSE 0
     /\ AllZero(registers, 16)
     /\ index_register = 0
     /\ AllZero(stack, 16)
     /\ stack_pointer = 0
     /\ delay_timer = 0
     /\ sound_timer = 0
     /\ AllZero(display_buffer, 2048)
     /\ program_counter = 512

\* a ROM that fills the program area to its last byte has been loaded
C1_Witness ==
  /\ last_call = "new"
  /\ Len(rom) = 3584
  /\ status = "running"
  /\ ram[512] = 42
  /\ ram[4095] = 69
  /\ ram[80] = 240
  /\ ram[159] = 128

(***************************************************************************)
(* C2: for every ROM of more than 3584 bytes new fails and no emulator,    *)
(* not even a partly initialised one, exists.                              *)
(***************************************************************************)
C2_TooLargeRomFails ==
  Len(rom) > 3584 =>
     /\ status = "new_panicked"
     /\ last_call = "new"
     /\ NoneHeld
     /\ ~ ENABLED RunInstruction
     /\ ~ ENABLED Run60hzFrame

C2_Witness == Len(rom) = 3585 /\ status = "new_panicked"

(***************************************************************************)
(* C3: every call of run_60hz_frame runs to completion and performs        *)
(* exactly instructions_per_frame cycles.                                  *)
(***************************************************************************)
C3_FrameRunsEveryCycle ==
  last_call = "run_60hz_frame" =>
     status = "running" /\ cycles = instructions_per_frame

(***************************************************************************)
(* C4: across a call of run_60hz_frame each timer goes from t to           *)
(* max(t - 1, 0), and no instruction run on its own changes a timer.       *)
(***************************************************************************)
C4_TimersTick ==
  [][ /\ (last_call' = "run_60hz_frame" /\ calls' = calls + 1) =>
           /\ delay_timer' = Max(delay_timer - 1, 0)
           /\ sound_timer' = Max(sound_timer - 1, 0)
      /\ (last_call' = "run_instruction" /\ calls' = calls + 1) =>
           UNCHANGED << delay_timer, sound_timer >> ]_vars

\* one frame has taken the delay timer from MaxTimer down by one and has
\* left a sound timer of 0 or 1 at its floor
C4_Witness ==
  /\ last_call = "run_60hz_frame"
  /\ calls = 1
  /\ delay_timer = MaxTimer - 1
  /\ sound_timer = 0

(***************************************************************************)
(* C5: an opcode that matches none of 00E0, 1NNN, 2NNN, 3XNN, 4XNN, 5XY0,  *)
(* 6XNN, 7XNN, 8XY0, 8XY2, 8XY4, 9XY0, ANNN, DXYN, FX1E, FX65 is a no-op:  *)
(* the program counter ends at its value before the fetch + 2, nothing     *)
(* else changes and the run is not aborted.                                *)
(***************************************************************************)
Implemented(w) ==
  \/ w = 224
  \/ NibbleOf(w, 0) \in {1, 2, 3, 4, 6, 7, 10, 13}
  \/ NibbleOf(w, 0) \in {5, 9} /\ NibbleOf(w, 3) = 0
  \/ NibbleOf(w, 0) = 8 /\ NibbleOf(w, 3) \in {0, 2, 4}
  \/ NibbleOf(w, 0) = 15 /\ w % 256 \in {30, 101}

C5_UnknownOpcodeIsNoOp ==
  [][ (InstructionStep /\ ~ Implemented(Opcode)) =>
        /\ program_counter' = program_counter + 2
        /\ status' = "running"
        /\ RestUnchanged ]_vars

\* the third instruction of a program was 8XYE, which is not implemented
C5_Witness ==
  /\ Ran(3)
  /\ NibbleOf(LastOpcode, 0) = 8
  /\ NibbleOf(LastOpcode, 3) = 14
  /\ registers[NibbleOf(LastOpcode, 1)] # 0

(***************************************************************************)
(* C6: DXYN toggles the cell (VY + r) * 64 + (VX + c) exactly when bit     *)
(* 7 - c of ram[I + r] is set, for r < N and c < 8, and leaves every other *)
(* cell alone, whenever all those cells and sprite bytes are in range.     *)
(***************************************************************************)
SpriteX == registers[NibbleOf(Opcode, 1)]

SpriteY == registers[NibbleOf(Opcode, 2)]

SpriteRows == 0..(NibbleOf(Opcode, 3) - 1)

SpriteCell(r, c) == (SpriteY + r) * 64 + (SpriteX + c)

SpriteBit(r, c) == (ram[index_register + r] \div (2 ^ (7 - c))) % 2 = 1

SpriteInRange ==
  \A r \in SpriteRows :
    /\ index_register + r <= 4095
    /\ \A c \in 0..7 : SpriteCell(r, c) <= 2047

DrawStep == InstructionStep /\ NibbleOf(Opcode, 0) = 13

C6_DrawIsXor ==
  [][ (DrawStep /\ SpriteInRange) =>
        /\ status' = "running"
        /\ \A r \in SpriteRows : \A c \in 0..7 :
             (Lit(display_buffer'[SpriteCell(r, c)])
                # Lit(display_buffer[SpriteCell(r, c)])) <=> SpriteBit(r, c)
        /\ \A i \in (0..2047) \ { SpriteCell(r, c) : r \in SpriteRows, c \in 0..7 } :
             display_buffer'[i] = display_buffer[i] ]_vars

\* the glyph "0" was drawn at (0, 0) twice: the second draw, the third
\* instruction, has put out every cell the first one lit
C6_Witness ==
  /\ Ran(3)
  /\ LastOpcode = 53253
  /\ ram[program_counter - 4] * 256 + ram[program_counter - 3] = 53253
  /\ index_register = 80
  /\ registers[15] = 1
  /\ AllZero(display_buffer, 2048)

(***************************************************************************)
(* C7: after DXYN the flag register is 1 if a lit cell was put out by this *)
(* call and 0 if none was.                                                 *)
(***************************************************************************)
SpriteCollides ==
  \E r \in SpriteRows : \E c \in 0..7 :
    SpriteBit(r, c) /\ Lit(display_buffer[SpriteCell(r, c)])

C7_DrawSetsFlag ==
  [][ (DrawStep /\ SpriteInRange) =>
        registers'[15] = IF SpriteCollides THEN 1 ELSE 0 ]_vars

(***************************************************************************)
(* C8: after 8XY4 the flag register is 1 if old VX + old VY exceeds 255    *)
(* and 0 otherwise, for every X and Y.                                     *)
(***************************************************************************)
AddStep ==
  InstructionStep /\ NibbleOf(Opcode, 0) = 8 /\ NibbleOf(Opcode, 3) = 4

OperandSum == registers[NibbleOf(Opcode, 1)] + registers[NibbleOf(Opcode, 2)]

C8_AddSetsCarry ==
  [][ AddStep => registers'[15] = IF OperandSum > 255 THEN 1 ELSE 0 ]_vars

\* 8XY4 ran third on operands that sum to 256 or more
C8_Witness ==
  /\ Ran(3)
  /\ NibbleOf(LastOpcode, 0) = 8
  /\ NibbleOf(LastOpcode, 3) = 4
  /\ NibbleOf(LastOpcode, 1) = 0
  /\ NibbleOf(LastOpcode, 2) = 1
  /\ registers[1] = 128
  /\ registers[0] = 0
  /\ registers[15] = 1

(***************************************************************************)
(* C9, as claimed: after 8XY4 register X holds (old VX + old VY) mod 256   *)
(* for every X, X = 0xF included.                                          *)
(***************************************************************************)
C9_AddStoresSumInEveryX ==
  [][ AddStep => registers'[NibbleOf(Opcode, 1)] = OperandSum % 256 ]_vars

(***************************************************************************)
(* C9, amended: after 8XY4 register X holds (old VX + old VY) mod 256 for  *)
(* every X in 0..14; for X = 0xF the register holds the carry flag, which  *)
(* is written after the sum.                                               *)
(***************************************************************************)
C9_AddStoresSum ==
  [][ AddStep =>
        IF NibbleOf(Opcode, 1) # 15
        THEN registers'[NibbleOf(Opcode, 1)] = OperandSum % 256
        ELSE registers'[15] = IF OperandSum > 255 THEN 1 ELSE 0 ]_vars

\* 8XY4 ran third with X = 1, Y = 0 on 255 + 128: V1 holds 127
C9_Witness ==
  /\ Ran(3)
  /\ NibbleOf(LastOpcode, 0) = 8
  /\ NibbleOf(LastOpcode, 3) = 4
  /\ NibbleOf(LastOpcode, 1) = 1
  /\ NibbleOf(LastOpcode, 2) = 0
  /\ registers[0] = 128
  /\ registers[1] = 127
  /\ registers[15] = 1

(***************************************************************************)
(* C10, as claimed: 7XNN leaves the flag register as it was, for every X   *)
(* in 0..15 and every NN.                                                  *)
(***************************************************************************)
AddImmediateStep == InstructionStep /\ NibbleOf(Opcode, 0) = 7

C10_AddImmediateKeepsFlagForEveryX ==
  [][ AddImmediateStep => registers'[15] = registers[15] ]_vars

(***************************************************************************)
(* C10, amended: 7XNN leaves the flag register as it was for every X in    *)
(* 0..14 and every NN, overflow included; 7FNN has the flag register as    *)
(* its destination and sets it to (old VF + NN) mod 256.                   *)
(***************************************************************************)
C10_AddImmediateKeepsFlag ==
  [][ AddImmediateStep =>
        IF NibbleOf(Opcode, 1) # 15
        THEN registers'[15] = registers[15]
        ELSE registers'[15] = (registers[15] + (Opcode % 256)) % 256 ]_vars

\* 71NN ran second and overflowed V1 from 255 to 127; the flag is still 0
C10_Witness ==
  /\ Ran(2)
  /\ LastOpcode = 7 * 4096 + 256 + 128
  /\ ram[512] * 256 + ram[513] = 6 * 4096 + 256 + 255
  /\ registers[1] = 127
  /\ registers[15] = 0

(***************************************************************************)
(* C11: 7XNN sets register X to (old VX + NN) mod 256 for every X, every   *)
(* old value and every NN, never aborts, and changes no other general      *)
(* register, nor the index register, the stack or the display.             *)
(***************************************************************************)
C11_AddImmediateWraps ==
  [][ AddImmediateStep =>
        /\ status' = "running"
        /\ registers'[NibbleOf(Opcode, 1)]
             = (registers[NibbleOf(Opcode, 1)] + (Opcode % 256)) % 256
        /\ \A i \in (0..15) \ {NibbleOf(Opcode, 1)} : registers'[i] = registers[i]
        /\ UNCHANGED << index_register, stack, stack_pointer, display_buffer >> ]_vars

\* 7F80 ran second on VF = 128 and wrapped it to 0
C11_Witness ==
  /\ Ran(2)
  /\ LastOpcode = 7 * 4096 + 15 * 256 + 128
  /\ ram[512] * 256 + ram[513] = 6 * 4096 + 15 * 256 + 128
  /\ registers[15] = 0

(***************************************************************************)
(* C12: 3XNN (VX = NN), 4XNN (VX # NN), 5XY0 (VX = VY) and 9XY0 (VX # VY)  *)
(* leave the program counter at its value before the fetch + 4 when the    *)
(* comparison holds and + 2 when it does not, and change nothing else.     *)
(***************************************************************************)
SkipOpcode ==
  \/ NibbleOf(Opcode, 0) \in {3, 4}
  \/ NibbleOf(Opcode, 0) \in {5, 9} /\ NibbleOf(Opcode, 3) = 0

SkipComparison ==
  LET vx == registers[NibbleOf(Opcode, 1)]
      vy == registers[NibbleOf(Opcode, 2)]
      nn == Opcode % 256
  IN  CASE NibbleOf(Opcode, 0) = 3 -> vx = nn
        [] NibbleOf(Opcode, 0) = 4 -> vx # nn
        [] NibbleOf(Opcode, 0) = 5 -> vx = vy
        [] NibbleOf(Opcode, 0) = 9 -> vx # vy

C12_SkipsAdvanceByFourOrTwo ==
  [][ (InstructionStep /\ SkipOpcode) =>
        /\ status' = "running"
        /\ program_counter' = program_counter + (IF SkipComparison THEN 4 ELSE 2)
        /\ RestUnchanged ]_vars

\* 9XY0 ran third on unequal registers and skipped: three instructions
\* have taken the program counter from 0x200 to 0x208
C12_Witness ==
  /\ last_call = "run_instruction"
  /\ calls = 3
  /\ status = "running"
  /\ instructions_per_frame = 12
  /\ program_counter = 520
  /\ NibbleOf(ram[516] * 256 + ram[517], 0) = 9
  /\ NibbleOf(ram[516] * 256 + ram[517], 3) = 0
  /\ registers[NibbleOf(ram[516] * 256 + ram[517], 1)]
       # registers[NibbleOf(ram[516] * 256 + ram[517], 2)]

(***************************************************************************)
(* C13: 2NNN stores the already advanced program counter (address of the   *)
(* call + 2) into stack[old stack pointer], increments the stack pointer   *)
(* by exactly 1, sets the program counter to NNN and leaves every other    *)
(* stack slot, all registers, memory and the display unchanged.            *)
(***************************************************************************)
CallStep == InstructionStep /\ NibbleOf(Opcode, 0) = 2

C13_CallPushesReturnAddress ==
  [][ CallStep =>
        /\ status' = "running"
        /\ stack_pointer' = stack_pointer + 1
        /\ stack_pointer \in 0..15
        /\ stack'[stack_pointer] = program_counter + 2
        /\ \A i \in (0..15) \ {stack_pointer} : stack'[i] = stack[i]
        /\ program_counter' = Opcode % 4096
        /\ UNCHANGED << registers, index_register, ram, display_buffer >> ]_vars

(***************************************************************************)
(* C14: in every state reachable from construction by any sequence of      *)
(* instructions and frames the stack pointer lies in [0,16): it is at most *)
(* 15.                                                                     *)
(***************************************************************************)
C14_StackPointerBelowSixteen ==
  status # "new_panicked" => stack_pointer \in 0..15

(***************************************************************************)
(* C14, amended: the stack pointer counts the return addresses held, so it *)
(* lies in [0,16]; it is 16 when all 16 slots are in use, and a call made  *)
(* then aborts without moving it.                                          *)
(***************************************************************************)
C14_StackPointerAtMostSixteen ==
  status # "new_panicked" => stack_pointer \in 0..16

\* sixteen nested calls have returned normally and filled the stack
C14_Witness ==
  /\ status = "running"
  /\ stack_pointer = 16
  /\ \A i \in 0..15 : stack[i] = 514
  /\ program_counter = 512

(***************************************************************************)
(* C15: FX65 copies exactly X + 1 bytes: for every i in 0..X register i    *)
(* becomes memory[I + i], every register with index greater than X is      *)
(* unchanged, and the index register has the same value after the          *)
(* instruction as before.                                                  *)
(***************************************************************************)
LoadStep ==
  InstructionStep /\ NibbleOf(Opcode, 0) = 15 /\ Opcode % 256 = 101

C15_LoadCopiesXPlusOneBytes ==
  [][ LoadStep =>
        /\ status' = "running"
        /\ \A i \in 0..NibbleOf(Opcode, 1) :
             /\ index_register + i < RAM_SIZE
             /\ registers'[i] = ram[index_register + i]
        /\ \A i \in (NibbleOf(Opcode, 1) + 1)..15 : registers'[i] = registers[i]
        /\ index_register' = index_register ]_vars

(***************************************************************************)
(* C16: 00E0 sets all 64 x 32 display cells to 0 whatever they held, and   *)
(* changes no register, no stack entry and no timer.                       *)
(***************************************************************************)
ClearStep == InstructionStep /\ Opcode = 224

C16_ClearZeroesDisplay ==
  [][ ClearStep =>
        /\ status' = "running"
        /\ \A i \in 0..(64 * 32 - 1) : display_buffer'[i] = 0
        /\ UNCHANGED << registers, index_register, stack, stack_pointer,
                        delay_timer, sound_timer >> ]_vars

\* A050 D005 00E0: the glyph of 0 was drawn and then cleared
C16_Witness ==
  /\ Ran(3)
  /\ LastOpcode = 224
  /\ ram[514] * 256 + ram[515] = 13 * 4096 + 5
  /\ index_register = 80
  /\ AllZero(display_buffer, 64 * 32)

(***************************************************************************)
(* C17: 1NNN sets the program counter to exactly NNN, the low 12 bits of   *)
(* the opcode (0x1234 gives 0x234), discarding the + 2 advance, and leaves *)
(* the stack and the stack pointer unchanged.                              *)
(***************************************************************************)
JumpStep == InstructionStep /\ NibbleOf(Opcode, 0) = 1

C17_JumpSetsProgramCounter ==
  [][ JumpStep =>
        /\ status' = "running"
        /\ program_counter' = Opcode % 4096
        /\ UNCHANGED << stack, stack_pointer >> ]_vars

\* 0x1234 ran first and left the program counter at 0x234
C17_Witness ==
  /\ last_call = "run_instruction"
  /\ calls = 1
  /\ status = "running"
  /\ ram[512] * 256 + ram[513] = 4660
  /\ program_counter = 564
  /\ stack_pointer = 0

(***************************************************************************)
(* C18: in every reachable state every display cell is 0 or 0xFFFFFFFF.    *)
(***************************************************************************)
C18_CellsAreOffOrOn ==
  status # "new_panicked" =>
    \A i \in 0..(WIDTH * HEIGHT - 1) :
      display_buffer[i] \in {0, U32(65535, 65535)}

\* the top row of the glyph of 0 (0xF0) drawn at the origin: four cells
\* lit, the fifth off
C18_Witness ==
  /\ status = "running"
  /\ \A i \in 0..3 : display_buffer[i] = U32(65535, 65535)
  /\ display_buffer[4] = 0

(***************************************************************************)
(* C19: decode is total: for every 16-bit opcode w it returns, without     *)
(* error, first_nibble = w >> 12, x_register = (w >> 8) & 0xF,             *)
(* y_register = (w >> 4) & 0xF, n = w & 0xF, nn = w & 0xFF,                *)
(* nnn = w & 0xFFF and raw_instruction = w, so that                        *)
(* w = first_nibble * 4096 + nnn and nn = y_register * 16 + n.             *)
(* Checked on the opcode each instruction fetches, together with what the  *)
(* arms of 6XNN and ANNN then do with the fields.                          *)
(***************************************************************************)
DecodedFields ==
  { "first_nibble", "x_register", "y_register", "n_4_bit_constant",
    "nn_8_bit_constant", "nnn_12_bit_address", "raw_instruction" }

C19_DecodeIsTotal ==
  [][ InstructionStep =>
        LET w == Opcode
            d == decode(w)
        IN  /\ DOMAIN d = DecodedFields
            /\ d.first_nibble = w \div 4096
            /\ d.x_register = (w \div 256) % 16
            /\ d.y_register = (w \div 16) % 16
            /\ d.n_4_bit_constant = w % 16
            /\ d.nn_8_bit_constant = w % 256
            /\ d.nnn_12_bit_address = w % 4096
            /\ d.raw_instruction = w
            /\ w = d.first_nibble * 4096 + d.nnn_12_bit_address
            /\ d.nn_8_bit_constant = d.y_register * 16 + d.n_4_bit_constant
            /\ (w \div 4096 = 6) => (registers'[(w \div 256) % 16] = w % 256)
            /\ (w \div 4096 = 10) => (index_register' = w % 4096) ]_vars

\* 0xAAEE ran first: I = 0xAEE, the low 12 bits with the top one set
C19_Witness ==
  /\ last_call = "run_instruction"
  /\ calls = 1
  /\ status = "running"
  /\ rom = << 170, 238 >>
  /\ index_register = 2798
  /\ program_counter = 514

(***************************************************************************)
(* C20: dispatch is unambiguous: for every 16-bit opcode at most one of    *)
(* the implemented match patterns of run_instruction applies, so the       *)
(* effect of an instruction does not depend on the order of the arms.      *)
(***************************************************************************)
\* the patterns of the match, in the order of the arms
ArmPatterns(d) ==
  << Is00E0(d), Is1NNN(d), Is2NNN(d), Is3XNN(d), Is4XNN(d), Is5XY0(d),
     Is6XNN(d), Is7XNN(d), Is8XY0(d), Is8XY2(d), Is8XY4(d), Is9XY0(d),
     IsANNN(d), IsDXYN(d), IsFX1E(d), IsFX65(d) >>

MatchingArms(d) == { k \in DOMAIN ArmPatterns(d) : ArmPatterns(d)[k] }

C20_AtMostOneArmMatches ==
  [][ InstructionStep => Cardinality(MatchingArms(decode(Opcode))) <= 1 ]_vars

\* 0x8A14 ran first, matched by the 8XY4 arm alone: V10 + V1 = 0 + 0 wrote
\* no carry and the program counter moved on
C20_Witness ==
  /\ last_call = "run_instruction"
  /\ calls = 1
  /\ status = "running"
  /\ rom = << 138, 20 >>
  /\ MatchingArms(decode(ram[512] * 256 + ram[513])) = {11}
  /\ program_counter = 514

(***************************************************************************)
(* C21: in every execution from any valid ROM every memory read uses an    *)
(* address inside the 4096-byte memory: the two fetch addresses pc and     *)
(* pc + 1, the sprite row addresses I + r read by DXYN and the load        *)
(* addresses I + i read by FX65 are all at most 4095, so no instruction    *)
(* aborts on an out-of-range memory access.                                *)
(***************************************************************************)
RunInstructionStep == last_call' = "run_instruction" /\ calls' = calls + 1

\* the sprite rows DXYN gets to: row r is read once every cell of the rows
\* above it was inside the display buffer
RowsRead == { r \in SpriteRows : r = 0 \/ SpriteCell(r - 1, 7) <= 2047 }

C21_MemoryReadsInRange ==
  [][ RunInstructionStep =>
        /\ program_counter <= 4095
        /\ program_counter + 1 <= 4095
        /\ (NibbleOf(Opcode, 0) = 13) =>
             (\A r \in RowsRead : index_register + r <= 4095)
        /\ (NibbleOf(Opcode, 0) = 15 /\ Opcode % 256 = 101) =>
             (\A i \in 0..NibbleOf(Opcode, 1) : index_register + i <= 4095) ]_vars

(***************************************************************************)
(* C22: in every execution from any valid ROM every display cell index     *)
(* (VY + r) * 64 + (VX + c) that DXYN reads or writes lies inside the      *)
(* 64 x 32 buffer (0..2047), and a sprite column with VX + c >= 64 never   *)
(* changes a cell of a different display row.                              *)
(***************************************************************************)
\* the sprite rows whose byte DXYN can read
RowsInMemory == { r \in SpriteRows : index_register + r <= 4095 }

C22_DrawStaysInsideDisplay ==
  [][ DrawStep =>
        \A r \in RowsInMemory : \A c \in 0..7 :
          /\ SpriteCell(r, c) \in 0..2047
          /\ (SpriteX + c >= 64) =>
               (display_buffer'[SpriteCell(r, c)] = display_buffer[SpriteCell(r, c)]) ]_vars

(***************************************************************************)
(* C23: memory is never written after construction: in every state         *)
(* reachable by any sequence of instructions and frames all 4096 memory    *)
(* bytes equal their values right after Chip8Emulator::new, so the font    *)
(* table at 0x50..0x9F and the loaded program stay intact.                 *)
(***************************************************************************)
C23_MemoryKeepsInitialContents ==
  status # "new_panicked" =>
    /\ ram = InitialRam(rom)
    /\ \A i \in 1..80 : ram[80 + i - 1] = FONTS[i]
    /\ \A i \in 1..Len(rom) : ram[512 + i - 1] = rom[i]

\* 6X.. A050 F065: three instructions ran, the last one read the font table
\* into V0, and memory is as new left it
C23_Witness ==
  /\ Ran(3)
  /\ LastOpcode = 15 * 4096 + 101
  /\ index_register = 80
  /\ registers[0] = 240
  /\ ram = InitialRam(rom)

(***************************************************************************)
(* C24: DXYN is an involution on the display: executing the same DXYN      *)
(* twice in a row with unchanged VX, VY, I and sprite bytes (all cells in  *)
(* range, X and Y not 0xF) restores the display buffer to exactly its      *)
(* contents before the first draw, and the second draw leaves VF = 1       *)
(* whenever the sprite has at least one set bit.                           *)
(* Checked on every draw the emulator makes: the emulator it leaves runs   *)
(* the same instruction once more.                                         *)
(***************************************************************************)
\* the emulator as the step leaves it, about to run the instruction at
\* address pc
Redo(pc) ==
  [ registers              |-> registers',
    ram                    |-> ram',
    index_register         |-> index_register',
    program_counter        |-> pc,
    stack                  |-> stack',
    stack_pointer          |-> stack_pointer',
    delay_timer            |-> delay_timer',
    sound_timer            |-> sound_timer',
    display_buffer         |-> display_buffer',
    instructions_per_frame |-> instructions_per_frame',
    status                 |-> status',
    cycles                 |-> 0 ]

SpriteHasSetBit == \E r \in SpriteRows : \E c \in 0..7 : SpriteBit(r, c)

====
